---- MODULE Spec2Model ----
(***************************************************************************)
(* Model of my_blackhole_V10.py: a Streamlit dashboard that keeps a memo   *)
(* and a snippet list as objects of a versioned remote store (the GitHub   *)
(* contents API) and mutates them by "read sha, then PUT with that sha".   *)
(*                                                                         *)
(* Every handler that talks to the store twice is split at the point      *)
(* between its GET and its PUT, so that handlers of different browser      *)
(* sessions interleave there.  The store itself is not part of the         *)
(* repository; it is modelled from section 4.1 of the specification.       *)
(* json.dumps / json.loads and base64 are library round trips on the       *)
(* values that occur here and are not modelled further; the conversions    *)
(* written in the repository (_normalize_snippet_item, the parsing of the  *)
(* register input, Python's list.pop and truthiness) are modelled by what  *)
(* they do.                                                                *)
(***************************************************************************)
EXTENDS Integers, Sequences, FiniteSets, TLC

\* ------------------------------------------------------------------------
\* Bounds
\* ------------------------------------------------------------------------
\* longest snippet list the register handler is allowed to build
MaxLen == 3
\* number of successful writes (fresh version tokens) the store hands out
MaxWrites == 2

Sessions == {"s1", "s2"}

\* the candidate names an upload of N may probe: N, "base (1)ext", ...,
\* "base (MaxCopies)ext"
MaxCopies == 2

\* the longest playlist a session builds
MaxTracks == 2

\* the latest reading of the clock (time.time()) and the longest elapsed
\* time a player accumulates
MaxTime == 1
MaxElapsed == 2

\* the longest snippet list, name and list of durations a helper function is
\* applied to on its own
MaxItems == 2
MaxName == 3
MaxDurations == 4

\* the size above which the upload handler refuses a file:
\* "if len(content) > 95 * 1024 * 1024"
MaxUploadBytes == 99614720

\* ------------------------------------------------------------------------
\* Values
\* ------------------------------------------------------------------------
\* Python's None for a version token / sha
None == 0
\* Python's None (or an absent key) for a string: no character is "<None>"
NoneStr == <<"<None>">>

\* strings the program parses are sequences of one-character strings
Blank(c) == c \in {" ", "\n", "\t"}

RECURSIVE rstrip(_)
\* str.rstrip()
rstrip(s) ==
    IF s = <<>> THEN <<>>
    ELSE IF Blank(s[Len(s)]) THEN rstrip(SubSeq(s, 1, Len(s) - 1)) ELSE s

RECURSIVE lstrip(_)
lstrip(s) ==
    IF s = <<>> THEN <<>>
    ELSE IF Blank(s[1]) THEN lstrip(Tail(s)) ELSE s

\* str.strip()
strip(s) == rstrip(lstrip(s))

\* index of the first ":" of s, 0 when there is none  (":" in s, s.split(":", 1))
FirstColon(s) ==
    IF \E i \in 1..Len(s) : s[i] = ":"
    THEN CHOOSE i \in 1..Len(s) : s[i] = ":" /\ \A j \in 1..(i - 1) : s[j] # ":"
    ELSE 0

\* a test for None only: "if hint is not None"
NotNone(x) == x # NoneStr

\* Python truthiness of an Optional[str]
Truthy(x) == x # NoneStr /\ x # <<>>

\* a snippet as it may sit in a JSON array: a bare string or a dict
StrItem(t) == [kind |-> "str", t |-> t, hint |-> NoneStr]
DictItem(t, hint) == [kind |-> "dict", t |-> t, hint |-> hint]

\* _normalize_snippet_item
_normalize_snippet_item(x) ==
    IF x.kind = "dict"
    THEN DictItem(IF x.t = NoneStr THEN <<>> ELSE x.t,
                  IF Truthy(x.hint) THEN x.hint ELSE NoneStr)
    ELSE DictItem(x.t, NoneStr)

NormalizeAll(list) == [i \in 1..Len(list) |-> _normalize_snippet_item(list[i])]

\* ------------------------------------------------------------------------
\* The remote object store (section 4.1 of the specification)
\* ------------------------------------------------------------------------
Absent == [exists |-> FALSE, content |-> <<>>, sha |-> None]

\* read(path): 200 with content and version token, 404 when absent, 500 on a
\* transient failure
StoreGet(f, fail) ==
    IF fail THEN [status |-> 500, sha |-> None, content |-> <<>>]
    ELSE IF f.exists THEN [status |-> 200, sha |-> f.sha, content |-> f.content]
    ELSE [status |-> 404, sha |-> None, content |-> <<>>]

\* write(path, bytes, version_token_or_none): a supplied token must match the
\* object's current one (409 otherwise); without a token the write is
\* unconditional.  fresh is the version token the store issues.
StorePut(f, content, hasSha, sha, fresh, fail) ==
    IF fail THEN [status |-> 500, file |-> f]
    ELSE IF hasSha /\ ~(f.exists /\ f.sha = sha) THEN [status |-> 409, file |-> f]
    ELSE [status |-> IF f.exists THEN 200 ELSE 201,
          file |-> [exists |-> TRUE, content |-> content, sha |-> fresh]]

\* delete(path, version_token): NotFound when the object is absent, refused
\* when the token is not the object's current one
StoreDelete(f, sha, fail) ==
    IF fail THEN [status |-> 500, file |-> f]
    ELSE IF ~f.exists THEN [status |-> 404, file |-> f]
    ELSE IF f.sha # sha THEN [status |-> 409, file |-> f]
    ELSE [status |-> 200, file |-> Absent]

\* ------------------------------------------------------------------------
\* GitHub helpers of the program
\* ------------------------------------------------------------------------
\* get_file_sha_if_exists without its 404 branch: raises on anything but 200
get_file_sha_raises_on_404(f, fail) ==
    LET r == StoreGet(f, fail) IN
    IF r.status = 200
    THEN [raised |-> FALSE, sha |-> r.sha, info |-> TRUE, content |-> r.content]
    ELSE [raised |-> TRUE, sha |-> None, info |-> FALSE, content |-> <<>>]

\* get_file_sha_if_exists: (sha, info) on 200, (None, None) on 404, raises
\* otherwise
get_file_sha_if_exists(f, fail) ==
    LET r == StoreGet(f, fail) IN
    IF r.status = 200
    THEN [raised |-> FALSE, sha |-> r.sha, info |-> TRUE, content |-> r.content]
    ELSE IF r.status = 404
    THEN [raised |-> FALSE, sha |-> None, info |-> FALSE, content |-> <<>>]
    ELSE [raised |-> TRUE, sha |-> None, info |-> FALSE, content |-> <<>>]

\* the upload handler's size check: "if len(content) > 95 * 1024 * 1024"
upload_too_large(f) == f.size > MaxUploadBytes

\* delete_file sending its DELETE whatever the read returned
delete_file_never_skips(sha) == FALSE

\* delete_file: "if not sha: return {'status': 'not_found'}"
delete_file_skips(sha) == sha = None

\* delete_file: the DELETE request with the sha just read; returns on 200,
\* raises otherwise
delete_file_request(f, sha, fail) ==
    LET r == StoreDelete(f, sha, fail) IN
    [raised |-> r.status # 200, status |-> r.status, file |-> r.file]

\* put_file that never puts the sha into the payload
put_file_without_sha(f, content, sha, fresh, fail) ==
    LET r == StorePut(f, content, FALSE, sha, fresh, fail) IN
    [raised |-> r.status \notin {200, 201},
     status |-> r.status,
     file   |-> r.file,
     sha    |-> IF r.status \in {200, 201} THEN r.file.sha ELSE None]

\* put_file without its check of the status code: returns whatever the
\* store answered
put_file_never_raises(f, content, sha, fresh, fail) ==
    LET r == StorePut(f, content, sha # None, sha, fresh, fail) IN
    [raised |-> FALSE,
     status |-> r.status,
     file   |-> r.file,
     sha    |-> IF r.status \in {200, 201} THEN r.file.sha ELSE None]

\* put_file: "if sha: payload['sha'] = sha"; returns on 200/201, raises
\* otherwise
put_file(f, content, sha, fresh, fail) ==
    LET r == StorePut(f, content, sha # None, sha, fresh, fail) IN
    [raised |-> r.status \notin {200, 201},
     status |-> r.status,
     file   |-> r.file,
     sha    |-> IF r.status \in {200, 201} THEN r.file.sha ELSE None]

\* load_snippets: the normalized list and the sha; [] when the object is
\* absent
load_snippets(f, fail) ==
    LET g == get_file_sha_if_exists(f, fail) IN
    [raised |-> g.raised,
     list   |-> IF g.info THEN NormalizeAll(g.content) ELSE <<>>,
     sha    |-> g.sha]

\* save_snippets handing back the sha it was given instead of the one in the
\* store's answer
save_snippets_returns_old_sha(f, snippets, sha, fresh, fail) ==
    [put_file(f, NormalizeAll(snippets), sha, fresh, fail) EXCEPT !.sha = sha]

\* save_snippets: PUT of the normalized list with the given sha; hands back
\* the sha of the store's answer
save_snippets(f, snippets, sha, fresh, fail) ==
    put_file(f, NormalizeAll(snippets), sha, fresh, fail)

\* list.pop that takes idx for a position counted from 1
list_pop_from_one(list, idx) ==
    IF 1 <= idx /\ idx <= Len(list)
    THEN [raised |-> FALSE,
          list |-> SubSeq(list, 1, idx - 1) \o SubSeq(list, idx + 1, Len(list))]
    ELSE [raised |-> FALSE, list |-> list]

\* list.pop(idx) with Python's negative indexing; raised = IndexError
list_pop(list, idx) ==
    LET i == IF idx < 0 THEN idx + Len(list) ELSE idx IN
    IF 0 <= i /\ i < Len(list)
    THEN [raised |-> FALSE,
          list |-> SubSeq(list, 1, i) \o SubSeq(list, i + 2, Len(list))]
    ELSE [raised |-> TRUE, list |-> list]

\* the guard without its lower bound: "if idx < len(current)"
snip_del_below_len(idx, current) == idx < Len(current)

\* the guard of the snip_del handler: "if 0 <= idx < len(current)"
snip_del_in_range(idx, current) == 0 <= idx /\ idx < Len(current)

\* the handler saving the list it has just loaded instead of the payload
snip_reorder_saves_current(normalized, current) == current

\* the list the snip_reorder handler hands to save_snippets: the payload of
\* the URL, not the list it has just loaded
snip_reorder_saved(normalized, current) == normalized

\* the register handler's parsing of the text area into a snippet
\* (rstrip; "title:content" splits at the first colon)
register_item(raw_in) ==
    LET c == FirstColon(raw_in) IN
    IF c = 0 THEN DictItem(raw_in, NoneStr)
    ELSE LET left  == strip(SubSeq(raw_in, 1, c - 1))
             right == strip(SubSeq(raw_in, c + 1, Len(raw_in)))
         IN DictItem(right, IF left = <<>> THEN NoneStr ELSE left)

\* ------------------------------------------------------------------------
\* Playlist helpers (tab 4)
\* ------------------------------------------------------------------------
\* Python's None for a track's duration
NoneDur == 0 - 1

\* play_start_ts = None
NoneTs == 0 - 1

\* a Track (dataclass) of the session playlist
Track(video_id, title, duration, thumbnail_url, audio_url) ==
    [video_id |-> video_id, title |-> title, duration |-> duration,
     thumbnail_url |-> thumbnail_url, audio_url |-> audio_url]

\* an element of the "tracks" array of a stored playlist: a dict, or
\* something that is no dict (kind "str")
StoredTrack(video_id, title, duration, thumbnail_url) ==
    [kind |-> "dict", video_id |-> video_id, title |-> title,
     duration |-> duration, thumbnail_url |-> thumbnail_url]

NoDictTrack ==
    [kind |-> "str", video_id |-> "", title |-> "", duration |-> 0,
     thumbnail_url |-> ""]

\* f"https://i.ytimg.com/vi/{vid}/hqdefault.jpg"
DefaultThumb(vid) ==
    IF vid = "v1" THEN "hq_v1" ELSE IF vid = "v2" THEN "hq_v2" ELSE "hq_"

\* _serialize_track: "duration": int(t.duration or 0); audio_url is not kept
_serialize_track(tr) ==
    StoredTrack(tr.video_id, tr.title,
                IF tr.duration = NoneDur THEN 0 ELSE tr.duration,
                tr.thumbnail_url)

SerializeAll(tracks) == [i \in 1..Len(tracks) |-> _serialize_track(tracks[i])]

\* a stored playlist: a JSON object {"name", "current_index", "tracks"}
\* (has_index: the key "current_index" is there) or, kind "list", a bare
\* JSON array of tracks
PlDoc(name, has_index, current_index, tracks) ==
    [kind |-> "dict", name |-> name, has_index |-> has_index,
     current_index |-> current_index, tracks |-> tracks]

PlList(tracks) ==
    [kind |-> "list", name |-> <<>>, has_index |-> FALSE, current_index |-> 0,
     tracks |-> tracks]

RECURSIVE DeserializeFrom(_)
\* the loop of _deserialize_tracks: an element whose x.get raises is skipped
DeserializeFrom(arr) ==
    IF arr = <<>> THEN <<>>
    ELSE LET x == Head(arr) IN
         IF x.kind # "dict" THEN DeserializeFrom(Tail(arr))
         ELSE << Track(x.video_id, x.title,
                       IF x.duration = NoneDur THEN 0 ELSE x.duration,
                       IF x.thumbnail_url = "" THEN DefaultThumb(x.video_id)
                       ELSE x.thumbnail_url,
                       "") >> \o DeserializeFrom(Tail(arr))

\* _deserialize_tracks: of a dict its "tracks", of a list the list itself;
\* audio_url = None (here "")
_deserialize_tracks(payload) == DeserializeFrom(payload.tracks)

\* the characters SAFE_FILENAME_RX lets stand: [0-9A-Za-z가-힣 _\-\.\(\)]
SafeChar(c) ==
    c \in { "a", "b", "c", "d", "e", "f", "g", "h", "i", "j", "k", "l", "m",
            "n", "o", "p", "q", "r", "s", "t", "u", "v", "w", "x", "y", "z",
            "A", "Z", "0", "9", " ", "_", "-", ".", "(", ")" }

RECURSIVE SafeSub(_)
\* SAFE_FILENAME_RX.sub("_", s): every maximal run of other characters
\* becomes one "_"
SafeSub(s) ==
    IF s = <<>> THEN <<>>
    ELSE IF SafeChar(s[1]) THEN <<s[1]>> \o SafeSub(Tail(s))
    ELSE IF Len(s) > 1 /\ ~SafeChar(s[2]) THEN SafeSub(Tail(s))
    ELSE <<"_">> \o SafeSub(Tail(s))

RECURSIVE StripChars(_, _)
\* str.strip(chars)
StripChars(s, chars) ==
    IF s = <<>> THEN <<>>
    ELSE IF s[1] \in chars THEN StripChars(Tail(s), chars)
    ELSE IF s[Len(s)] \in chars THEN StripChars(SubSeq(s, 1, Len(s) - 1), chars)
    ELSE s

\* the fallback name "playlist"
Playlist == <<"p", "l", "a", "y", "l", "i", "s", "t">>

\* a sanitizer that lets every character stand
sanitize_keeps_name(name) ==
    LET s == strip(name) IN IF s = <<>> THEN Playlist ELSE s

\* a sanitizer without its fallback: "return s"
sanitize_without_fallback(name) ==
    StripChars(SafeSub(strip(name)), {" ", ".", "_"})

\* _sanitize_filename
_sanitize_filename(name) ==
    LET s == StripChars(SafeSub(strip(name)), {" ", ".", "_"}) IN
    IF s = <<>> THEN Playlist ELSE s

\* _pl_path / path_join(folder, _sanitize_filename(name) + ".json"): within
\* the one playlist folder a path is told by the sanitized name
_pl_path(name) == _sanitize_filename(name)

\* get_raw_file_bytes without a sha: the bytes on 200, raises otherwise
get_raw_file_bytes(f, fail) ==
    LET r == StoreGet(f, fail) IN
    [raised |-> r.status # 200, content |-> r.content]

\* load_playlist_from_repo on the tab 4 part st of the session state: ok is
\* the first component of the pair it returns.  The playlist is assigned
\* before current_index; data.get of a bare array raises (AttributeError) at
\* line 655 when there are tracks, at line 660 otherwise.
load_playlist_from_repo(st, f, fail) ==
    LET raw == get_raw_file_bytes(f, fail) IN
    IF raw.raised THEN [ok |-> FALSE, st |-> st]
    ELSE LET data   == raw.content
             tracks == _deserialize_tracks(data)
             st1    == [st EXCEPT !.playlist = tracks]
         IN
         IF data.kind # "dict" /\ tracks # <<>> THEN [ok |-> FALSE, st |-> st1]
         ELSE LET st2 == [st1 EXCEPT
                            !.current_index =
                                IF tracks = <<>> THEN 0
                                ELSE IF data.has_index THEN data.current_index
                                ELSE 0,
                            !.elapsed_acc = 0,
                            !.play_start_ts = NoneTs,
                            !.is_playing = FALSE]
              IN [ok |-> data.kind = "dict", st |-> st2]

\* the Track the "add to another list" dialog rebuilds from _pending_track
PendingTrack(tr) ==
    Track(tr.video_id, tr.title,
          IF tr.duration = NoneDur THEN 0 ELSE tr.duration,
          tr.thumbnail_url, "")

\* the document save_current_playlist_to_repo writes (saved_at left out)
save_body(name, st) ==
    PlDoc(name, TRUE, st.current_index, SerializeAll(st.playlist))

\* the document append_track_to_playlist_path writes: {**meta, "updated",
\* "tracks"}; g is what get_file_sha_if_exists returned, path the name the
\* path carries
append_body(g, path, tr) ==
    LET cur  == IF g.info THEN _deserialize_tracks(g.content) ELSE <<>>
        name == IF g.info /\ g.content.kind = "dict" THEN g.content.name
                ELSE path
    IN PlDoc(name, FALSE, 0, SerializeAll(Append(cur, tr)))

\* the two neighbours of a list swapped: pl[i-1], pl[i] = pl[i], pl[i-1]
\* (i counted from 0)
SwapWithPrev(pl, i) ==
    [j \in 1..Len(pl) |-> IF j = i THEN pl[i + 1]
                          ELSE IF j = i + 1 THEN pl[i] ELSE pl[j]]

\* int(t.duration or 0)
DurationOrZero(tr) == IF tr.duration = NoneDur THEN 0 ELSE tr.duration

RECURSIVE _playlist_total_secs(_)
\* _playlist_total_secs: sum(int(t.duration or 0) for t in tracks)
_playlist_total_secs(tracks) ==
    IF tracks = <<>> THEN 0
    ELSE DurationOrZero(Head(tracks)) + _playlist_total_secs(Tail(tracks))

\* Python's min and max of two integers
Min(a, b) == IF a < b THEN a ELSE b
Max(a, b) == IF a > b THEN a ELSE b

\* a sum that takes the track at idx with it: tracks[:idx + 1]
sum_through_index(tracks, idx) ==
    _playlist_total_secs(SubSeq(tracks, 1, Max(0, Min(idx + 1, Len(tracks)))))

\* _sum_before_index: the sum over tracks[:max(0, min(idx, len(tracks)))]
_sum_before_index(tracks, idx) ==
    _playlist_total_secs(SubSeq(tracks, 1, Max(0, Min(idx, Len(tracks)))))

\* _elapsed_now without its "max(0.0, e)"
elapsed_unclamped(st, now) ==
    IF st.is_playing /\ st.play_start_ts # NoneTs
    THEN st.elapsed_acc + (now - st.play_start_ts)
    ELSE st.elapsed_acc

\* _elapsed_now, time.time() reading now: elapsed_acc, plus the time since
\* play_start_ts while playing, and never below 0
_elapsed_now(st, now) ==
    LET e == IF st.is_playing /\ st.play_start_ts # NoneTs
             THEN st.elapsed_acc + (now - st.play_start_ts)
             ELSE st.elapsed_acc
    IN Max(0, e)

\* what the up, down and delete buttons do first: the player is paused
Paused(st, now) ==
    [st EXCEPT !.elapsed_acc = _elapsed_now(st, now),
               !.play_start_ts = NoneTs,
               !.is_playing = FALSE]

\* the branches of the two play buttons on the track that is current
Toggled(st, now) ==
    IF st.is_playing
    THEN Paused(st, now)
    ELSE [st EXCEPT !.play_start_ts = now, !.is_playing = TRUE]

\* ------------------------------------------------------------------------
\* Inputs
\* ------------------------------------------------------------------------
\* what a user types into the snippet text area
RegInputs == { <<"a">>, <<"h", ":", "c">>, <<" ">> }

\* what a user types into the snippet text area around the "title:content"
\* form: no colon, a title with no content, a title with blank content, a
\* bare colon, blanks only
RegEdgeInputs ==
    { <<"a">>, <<"h", ":">>, <<"h", ":", " ">>, <<":">>, <<" ", "\n">> }

\* what a user types into the memo text area
MemoTexts == { "", "m1", "m2" }

\* snip_del query parameter (int(idx_str)): the chips carry 0..len-1, a
\* hand-written URL any integer
DelIdx == {0 - 1, 0, 1, MaxLen}

\* what st.file_uploader hands over, all under the one name N: two files of
\* the same size and one just above the accepted maximum
UploadFiles ==
    { [size |-> 1, data |-> "x"], [size |-> 1, data |-> "y"],
      [size |-> MaxUploadBytes + 1, data |-> "big"] }

\* fps = tuple(sorted((f.name, f.size) for f in files)) of a one-file selection
fps(f) == <<"N", f.size>>

\* the positions of the candidate names: 0 is <folder>/N, k is
\* <folder>/"base (k)ext"
Copies == 0..MaxCopies

\* names typed into the save prompt: "a", "a!", "!" and a blank one
PlNames == { <<"a">>, <<"a", "!">>, <<"!">>, <<" ">> }

\* all sequences over S of length n at most
SeqsUpTo(S, n) == UNION { [1..k -> S] : k \in 0..n }

\* tracks handed to _serialize_track: with and without duration, title and
\* thumbnail
SomeTracks ==
    { Track("v1", title, d, th, "au1") :
        title \in {"t1", ""}, d \in {NoneDur, 0, 30}, th \in {"th1", ""} }

\* snippets as they may sit in a JSON array or come from the register
\* handler: bare strings, and dicts with or without "t" and "hint"
SomeItems ==
    { StrItem(t) : t \in { <<>>, <<"a">> } }
    \cup { DictItem(t, h) : t \in { NoneStr, <<>>, <<"a">> },
                            h \in { NoneStr, <<>>, <<"h">>, <<" ">> } }

\* the characters of the names handed to _sanitize_filename
NameChars == {"a", "(", " ", "_", ".", "!", "\n"}

\* the durations of the tracks handed to the two sums
SomeDurations == {NoneDur, 0, 12, 30, 45}

TrackOf(d) == Track("v1", "t1", d, "th1", "au1")

\* the list without its k-th element (1-based)
Without(list, k) == [i \in 1..(Len(list) - 1) |-> IF i < k THEN list[i] ELSE list[i + 1]]

RECURSIVE Perms(_)
\* all orders of a list: what dragging the chips can produce
Perms(list) ==
    IF list = <<>> THEN { <<>> }
    ELSE UNION { { <<list[k]>> \o q : q \in Perms(Without(list, k)) } : k \in 1..Len(list) }

NoItem == DictItem(NoneStr, NoneStr)

\* ------------------------------------------------------------------------
\* State
\* ------------------------------------------------------------------------
VARIABLES
    snipFile,   \* the object at <snippet_folder>/snippets.json
    memoFile,   \* the object at <memo_folder>/memo.md
    nextSha,    \* the next version token the store will issue
    ss,         \* st.session_state of every browser session
    pc,         \* where every session's script stands
    loc,        \* the local variables of the handler a session is in
    last,       \* what the handler that finished last did and showed
    acked,      \* the snippets whose registration was announced as done
                \* (history variable)
    reorders,   \* how many of the latest writes of the snippets object, 2 at
                \* most, were reorders with no other write in between
                \* (history variable)
    memoSeen,   \* the version token the memo object had when a session's
                \* text area was last set up from it (first run, load
                \* button) or written by it (history variable)
    files,      \* tab 1: the objects at <folder>/N and <folder>/"base (k)ext"
    upl,        \* tab 1: _uploaded_selection_sig and uploader_key of every
                \* session
    plFiles,    \* tab 4: the objects at <playlist_folder>/<name>.json
    pls,        \* tab 4: playlist, current_index and is_playing of every
                \* session
    tloc,       \* the local variables of the tab 1 / tab 4 handler a session
                \* is in
    url,        \* the query parameter in every session's URL (del, snip_del,
                \* snip_reorder), NoParam when there is none
    arg,        \* the argument a helper function is applied to on its own
    res         \* and what it returned

\* what no handler changes while it runs: the URL (its parameter is removed
\* when the run ends) and the helper functions applied on their own
apart == <<url, arg, res>>

\* the state of tabs 1 and 4, which the handlers of tabs 2 and 3 leave alone
tab14 == <<files, upl, plFiles, pls, tloc, apart>>

\* the state of tabs 2 and 3, which the handlers of tabs 1 and 4 leave alone
tab23 == <<snipFile, memoFile, ss, loc, acked, reorders, memoSeen, apart>>

vars == <<snipFile, memoFile, nextSha, ss, pc, loc, last, acked, reorders, memoSeen,
          files, upl, plFiles, pls, tloc, url, arg, res>>

\* _init_state
_init_state ==
    [snippets |-> <<>>, _snip_sha |-> None, _snippets_loaded |-> FALSE,
     memo_area |-> "", _memo_autoloaded |-> FALSE]

NoLoc ==
    [current |-> <<>>, sha |-> None, idx |-> 0, item |-> NoItem,
     payload |-> <<>>, body |-> "", shown |-> NoItem]

\* locals of the tab 1 / tab 4 handlers: f the uploaded file, candidate the
\* position of the candidate name (upload) or of the path (file delete),
\* gets the number of GETs sent, sha the sha read, path and body the
\* playlist path and the JSON document about to be PUT
NoUpload == [size |-> 0, data |-> ""]

NoTLoc ==
    [f |-> NoUpload, candidate |-> 0, gets |-> 0, sha |-> None,
     path |-> <<>>, body |-> PlList(<<>>), old |-> PlList(<<>>)]

\* What the handler that has just finished did and showed; NoLast once the
\* script run has ended.  s: the session; op: the handler; msg: "toast"
\* (success), "error", "warning" or "none"; status: HTTP status of the PUT
\* the handler sent, 0 when it sent none; sha: the version token that PUT
\* carried; idx, n: the index asked for and the length of the list read
\* (snip_del), for tab 1 the position of the path and the number of requests
\* sent; read: HTTP status of the handler's GET where a claim needs it (file
\* delete, playlist handlers), 0 otherwise
NoLast ==
    [s |-> "none", op |-> "none", msg |-> "none", status |-> 0, sha |-> None,
     idx |-> 0, n |-> 0, read |-> 0]

Done(s, op, msg, status, sha) ==
    [NoLast EXCEPT !.s = s, !.op = op, !.msg = msg, !.status = status, !.sha = sha]

A == DictItem(<<"a">>, NoneStr)
B == DictItem(<<"b">>, NoneStr)
C == DictItem(<<"c">>, <<"h">>)

InitSnipFiles ==
    { Absent,
      [exists |-> TRUE, content |-> <<A, B>>, sha |-> 1] }

InitMemoFiles ==
    { Absent,
      [exists |-> TRUE, content |-> "m1", sha |-> 1] }

\* tab 1: the folder is empty, or holds one object at <folder>/N
EmptyFolder == [k \in Copies |-> Absent]

InitFolders ==
    { EmptyFolder,
      [EmptyFolder EXCEPT ![0] =
          [exists |-> TRUE, content |-> [size |-> 1, data |-> "x"], sha |-> 1]] }

\* what resolve_track returns for the two videos of the model: v2 comes
\* without a duration
T1 == Track("v1", "t1", 30, "th1", "au1")
T2 == Track("v2", "t2", NoneDur, "th2", "au2")
T3 == Track("v3", "t3", 12, "th3", "au3")

\* the readings of the clock
Times == 0..MaxTime

\* the paths of the playlist folder the model looks at
PlPaths == { <<"a">>, Playlist } \cup { _pl_path(n) : n \in PlNames }

NoPlaylists == [p \in PlPaths |-> Absent]

\* a playlist as save_current_playlist_to_repo wrote it, with the second of
\* its two tracks current
SavedA ==
    [exists |-> TRUE, sha |-> 1,
     content |-> PlDoc(<<"a">>, TRUE, 1, SerializeAll(<<T1, T2>>))]

\* a saved playlist of three tracks, the second current
SavedThree ==
    [exists |-> TRUE, sha |-> 1,
     content |-> PlDoc(Playlist, TRUE, 1, SerializeAll(<<T1, T2, T3>>))]

\* playlists that did not come from save_current_playlist_to_repo: a bare
\* array of tracks (the form _deserialize_tracks also accepts), and an object
\* one of whose two tracks is no dict while current_index is 1
LegacyList ==
    [exists |-> TRUE, sha |-> 1, content |-> PlList(SerializeAll(<<T1>>))]

OddDoc ==
    [exists |-> TRUE, sha |-> 1,
     content |-> PlDoc(<<"a">>, TRUE, 1, <<_serialize_track(T1), NoDictTrack>>)]

InitPlFolders ==
    { NoPlaylists,
      [NoPlaylists EXCEPT ![<<"a">>] = SavedA],
      [NoPlaylists EXCEPT ![<<"a">>] = SavedA, ![Playlist] = LegacyList],
      [NoPlaylists EXCEPT ![<<"a">>] = OddDoc],
      [NoPlaylists EXCEPT ![Playlist] = SavedThree] }

\* the tab 4 part of st.session_state as render_labor_song_tab sets it up
NoPlaylist ==
    [playlist |-> <<>>, current_index |-> 0, is_playing |-> FALSE,
     play_start_ts |-> NoneTs, elapsed_acc |-> 0]

\* no query parameter; no helper applied on its own
NoParam == [kind |-> "none", idx |-> 0, arr |-> <<>>]

NoArg == [fn |-> "none"]

\* the store and the sessions when the browser tabs open
ProgramInit ==
    /\ snipFile \in InitSnipFiles
    /\ memoFile \in InitMemoFiles
    /\ nextSha = 2
    /\ ss = [s \in Sessions |-> _init_state]
    /\ pc = [s \in Sessions |-> "idle"]
    /\ loc = [s \in Sessions |-> NoLoc]
    /\ last = NoLast
    /\ acked = {}
    /\ reorders = 0
    /\ memoSeen = [s \in Sessions |-> None]
    /\ files \in InitFolders
    /\ upl = [s \in Sessions |->
                [_uploaded_selection_sig |-> <<>>, uploader_key |-> 0]]
    /\ plFiles \in InitPlFolders
    /\ pls = [s \in Sessions |-> NoPlaylist]
    /\ tloc = [s \in Sessions |-> NoTLoc]
    /\ url = [s \in Sessions |-> NoParam]

Init ==
    /\ ProgramInit
    /\ arg = NoArg
    /\ res = NoArg

\* the store still has a version token to issue
CanWrite == nextSha < MaxWrites + 2

\* the first script run of a session has finished: the tabs are on screen
Rendered(s) ==
    /\ last = NoLast
    /\ pc[s] = "idle"
    /\ ss[s]._snippets_loaded
    /\ ss[s]._memo_autoloaded

Finish(s, l) ==
    /\ pc' = [pc EXCEPT ![s] = "idle"]
    /\ loc' = [loc EXCEPT ![s] = NoLoc]
    /\ last' = l

\* the same for a handler of tab 1 or tab 4
FinishT(s, l) ==
    /\ pc' = [pc EXCEPT ![s] = "idle"]
    /\ tloc' = [tloc EXCEPT ![s] = NoTLoc]
    /\ last' = l

\* ------------------------------------------------------------------------
\* Tab 3: snippets
\* ------------------------------------------------------------------------
\* first run of tab 3: "if ready and not _snippets_loaded"
SnipAutoload(s, fail) ==
    /\ last = NoLast
    /\ pc[s] = "idle"
    /\ ss[s]._memo_autoloaded
    /\ ~ss[s]._snippets_loaded
    /\ LET r == load_snippets(snipFile, fail) IN
       /\ ss' = [ss EXCEPT ![s] =
                   IF r.raised
                   THEN [@ EXCEPT !._snippets_loaded = TRUE]
                   ELSE [@ EXCEPT !.snippets = r.list, !._snip_sha = r.sha,
                                  !._snippets_loaded = TRUE]]
       /\ last' = IF r.raised THEN Done(s, "snip_load", "warning", 0, None)
                  ELSE NoLast
    /\ UNCHANGED <<tab14, snipFile, memoFile, nextSha, pc, loc, acked, reorders, memoSeen>>

\* the register button, up to and including load_snippets
RegisterRead(s, raw, fail) ==
    /\ Rendered(s)
    /\ LET raw_in == rstrip(raw) IN
       IF raw_in = <<>>
       THEN /\ Finish(s, Done(s, "reg", "warning", 0, None))
            /\ UNCHANGED <<tab14, snipFile, memoFile, nextSha, ss, acked, reorders, memoSeen>>
       ELSE LET r == load_snippets(snipFile, fail) IN
            IF r.raised
            THEN /\ Finish(s, [Done(s, "reg", "error", 0, None) EXCEPT !.read = 500])
                 /\ UNCHANGED <<tab14, snipFile, memoFile, nextSha, ss, acked, reorders, memoSeen>>
            ELSE /\ Len(r.list) < MaxLen
                 /\ pc' = [pc EXCEPT ![s] = "reg_put"]
                 /\ loc' = [loc EXCEPT ![s] =
                              [NoLoc EXCEPT !.current = r.list, !.sha = r.sha,
                                            !.item = register_item(raw_in)]]
                 /\ UNCHANGED <<tab14, snipFile, memoFile, nextSha, ss, last, acked, reorders, memoSeen>>

\* the register button, from current.append(item) on
RegisterWrite(s, fail) ==
    /\ last = NoLast
    /\ pc[s] = "reg_put"
    /\ LET current == Append(loc[s].current, loc[s].item)
           r == save_snippets(snipFile, current, loc[s].sha, nextSha, fail)
       IN
       IF r.raised
       THEN /\ Finish(s, Done(s, "reg", "error", r.status, loc[s].sha))
            /\ UNCHANGED <<tab14, snipFile, memoFile, nextSha, ss, acked, reorders, memoSeen>>
       ELSE /\ CanWrite
            /\ snipFile' = r.file
            /\ nextSha' = nextSha + 1
            /\ ss' = [ss EXCEPT ![s] =
                        [@ EXCEPT !.snippets = current, !._snip_sha = r.sha]]
            /\ acked' = acked \cup {loc[s].item}
            /\ reorders' = 0
            /\ Finish(s, Done(s, "reg", "toast", r.status, loc[s].sha))
            /\ UNCHANGED <<tab14, memoFile, memoSeen>>

\* the snip_del query handler, up to and including load_snippets and the
\* range check.  shown is the snippet the session's chip bar carries at
\* data-idx = idx.
SnipDelRead(s, idx, fail) ==
    /\ last = NoLast
    /\ pc[s] = "idle"
    /\ LET r == load_snippets(snipFile, fail)
           shown == IF 0 <= idx /\ idx < Len(ss[s].snippets)
                    THEN ss[s].snippets[idx + 1] ELSE NoItem
       IN
       IF r.raised
       THEN /\ Finish(s, [Done(s, "del", "error", 0, None) EXCEPT !.read = 500])
            /\ UNCHANGED <<tab14, snipFile, memoFile, nextSha, ss, acked, reorders, memoSeen>>
       ELSE IF snip_del_in_range(idx, r.list)
       THEN /\ pc' = [pc EXCEPT ![s] = "del_put"]
            /\ loc' = [loc EXCEPT ![s] =
                         [NoLoc EXCEPT !.current = r.list, !.sha = r.sha,
                                       !.idx = idx, !.shown = shown]]
            /\ UNCHANGED <<tab14, snipFile, memoFile, nextSha, ss, last, acked, reorders, memoSeen>>
       ELSE /\ Finish(s, [Done(s, "del", "toast", 0, None) EXCEPT
                             !.idx = idx, !.n = Len(r.list)])
            /\ UNCHANGED <<tab14, snipFile, memoFile, nextSha, ss, acked, reorders, memoSeen>>

\* the snip_del query handler, from current.pop(idx) on
SnipDelWrite(s, fail) ==
    /\ last = NoLast
    /\ pc[s] = "del_put"
    /\ LET p == list_pop(loc[s].current, loc[s].idx)
           r == save_snippets(snipFile, p.list, loc[s].sha, nextSha, fail)
           l == [Done(s, "del", "error", 0, None) EXCEPT
                    !.idx = loc[s].idx, !.n = Len(loc[s].current)]
       IN
       IF p.raised
       THEN /\ Finish(s, l)
            /\ UNCHANGED <<tab14, snipFile, memoFile, nextSha, ss, acked, reorders, memoSeen>>
       ELSE IF r.raised
       THEN /\ Finish(s, [l EXCEPT !.status = r.status, !.sha = loc[s].sha])
            /\ UNCHANGED <<tab14, snipFile, memoFile, nextSha, ss, acked, reorders, memoSeen>>
       ELSE /\ CanWrite
            /\ snipFile' = r.file
            /\ nextSha' = nextSha + 1
            /\ ss' = [ss EXCEPT ![s] =
                        [@ EXCEPT !.snippets = p.list, !._snip_sha = r.sha]]
            /\ reorders' = 0
            /\ Finish(s, [l EXCEPT !.msg = "toast", !.status = r.status,
                                   !.sha = loc[s].sha])
            /\ UNCHANGED <<tab14, memoFile, acked, memoSeen>>

\* the snip_reorder query handler, up to and including load_snippets; arr is
\* the order of the chips after the drag (dragend)
SnipReorderRead(s, arr, fail) ==
    /\ Rendered(s)
    /\ LET normalized == NormalizeAll(arr)
           r == load_snippets(snipFile, fail)
       IN
       IF r.raised
       THEN /\ Finish(s, [Done(s, "reo", "error", 0, None) EXCEPT !.read = 500])
            /\ UNCHANGED <<tab14, snipFile, memoFile, nextSha, ss, acked, reorders, memoSeen>>
       ELSE /\ pc' = [pc EXCEPT ![s] = "reo_put"]
            /\ loc' = [loc EXCEPT ![s] =
                         [NoLoc EXCEPT !.current = r.list, !.sha = r.sha,
                                       !.payload = normalized]]
            /\ UNCHANGED <<tab14, snipFile, memoFile, nextSha, ss, last, acked, reorders, memoSeen>>

\* the snip_reorder query handler, from save_snippets on
SnipReorderWrite(s, fail) ==
    /\ last = NoLast
    /\ pc[s] = "reo_put"
    /\ LET normalized == loc[s].payload
           r == save_snippets(snipFile,
                              snip_reorder_saved(normalized, loc[s].current),
                              loc[s].sha, nextSha, fail)
       IN
       IF r.raised
       THEN /\ Finish(s, Done(s, "reo", "error", r.status, loc[s].sha))
            /\ UNCHANGED <<tab14, snipFile, memoFile, nextSha, ss, acked, reorders, memoSeen>>
       ELSE /\ CanWrite
            /\ snipFile' = r.file
            /\ nextSha' = nextSha + 1
            /\ ss' = [ss EXCEPT ![s] =
                        [@ EXCEPT !.snippets = normalized, !._snip_sha = r.sha]]
            /\ reorders' = IF reorders = 0 THEN 1 ELSE 2
            /\ Finish(s, Done(s, "reo", "toast", r.status, loc[s].sha))
            /\ UNCHANGED <<tab14, memoFile, acked, memoSeen>>

\* ------------------------------------------------------------------------
\* Tab 2: memo
\* ------------------------------------------------------------------------
\* first run of tab 2: "if ready and not _memo_autoloaded"; an absent or
\* empty memo leaves the text area as it is
MemoAutoload(s, fail) ==
    /\ last = NoLast
    /\ pc[s] = "idle"
    /\ ~ss[s]._memo_autoloaded
    /\ LET g == get_file_sha_if_exists(memoFile, fail) IN
       /\ ss' = [ss EXCEPT ![s] =
                   IF ~g.raised /\ g.info /\ g.content # ""
                   THEN [@ EXCEPT !.memo_area = g.content, !._memo_autoloaded = TRUE]
                   ELSE [@ EXCEPT !._memo_autoloaded = TRUE]]
       /\ memoSeen' = [memoSeen EXCEPT ![s] = memoFile.sha]
    /\ UNCHANGED <<tab14, snipFile, memoFile, nextSha, pc, loc, last, acked, reorders>>

\* typing into st.text_area(key="memo_area")
MemoEdit(s, text) ==
    /\ Rendered(s)
    /\ ss[s].memo_area # text
    /\ ss' = [ss EXCEPT ![s] = [@ EXCEPT !.memo_area = text]]
    /\ UNCHANGED <<tab14, snipFile, memoFile, nextSha, pc, loc, last, acked, reorders, memoSeen>>

\* the load button (load_memo flag, handled on the rerun)
MemoLoad(s, fail) ==
    /\ Rendered(s)
    /\ LET g == get_file_sha_if_exists(memoFile, fail) IN
       IF g.raised
       THEN /\ Finish(s, Done(s, "memo_load", "error", 0, None))
            /\ UNCHANGED <<tab14, snipFile, memoFile, nextSha, ss, acked, reorders, memoSeen>>
       ELSE /\ ss' = [ss EXCEPT ![s] =
                        [@ EXCEPT !.memo_area =
                            IF g.info /\ g.content # "" THEN g.content ELSE ""]]
            /\ memoSeen' = [memoSeen EXCEPT ![s] = g.sha]
            /\ Finish(s, Done(s, "memo_load", "toast", 0, None))
            /\ UNCHANGED <<tab14, snipFile, memoFile, nextSha, acked, reorders>>

\* the save button, up to and including get_file_sha_if_exists
MemoSaveRead(s, fail) ==
    /\ Rendered(s)
    /\ LET g == get_file_sha_if_exists(memoFile, fail) IN
       IF g.raised
       THEN /\ Finish(s, Done(s, "memo_save", "error", 0, None))
            /\ UNCHANGED <<tab14, snipFile, memoFile, nextSha, ss, acked, reorders, memoSeen>>
       ELSE /\ pc' = [pc EXCEPT ![s] = "memo_put"]
            /\ loc' = [loc EXCEPT ![s] =
                         [NoLoc EXCEPT !.sha = g.sha, !.body = ss[s].memo_area]]
            /\ UNCHANGED <<tab14, snipFile, memoFile, nextSha, ss, last, acked, reorders, memoSeen>>

\* the save button, from put_file on
MemoSaveWrite(s, fail) ==
    /\ last = NoLast
    /\ pc[s] = "memo_put"
    /\ LET r == put_file(memoFile, loc[s].body, loc[s].sha, nextSha, fail) IN
       IF r.raised
       THEN /\ Finish(s, Done(s, "memo_save", "error", r.status, loc[s].sha))
            /\ UNCHANGED <<tab14, snipFile, memoFile, nextSha, ss, acked, reorders, memoSeen>>
       ELSE /\ CanWrite
            /\ memoFile' = r.file
            /\ nextSha' = nextSha + 1
            /\ memoSeen' = [memoSeen EXCEPT ![s] = r.sha]
            /\ Finish(s, Done(s, "memo_save", "toast", r.status, loc[s].sha))
            /\ UNCHANGED <<tab14, snipFile, ss, acked, reorders>>

\* the Clear button (clear_memo flag, handled on the rerun), up to and
\* including get_file_sha_if_exists
MemoClearRead(s, fail) ==
    /\ Rendered(s)
    /\ LET g == get_file_sha_if_exists(memoFile, fail) IN
       IF g.raised
       THEN /\ Finish(s, Done(s, "memo_clear", "error", 0, None))
            /\ UNCHANGED <<tab14, snipFile, memoFile, nextSha, ss, acked, reorders, memoSeen>>
       ELSE /\ pc' = [pc EXCEPT ![s] = "clear_put"]
            /\ loc' = [loc EXCEPT ![s] = [NoLoc EXCEPT !.sha = g.sha]]
            /\ UNCHANGED <<tab14, snipFile, memoFile, nextSha, ss, last, acked, reorders, memoSeen>>

\* the Clear button, from put_file(b"") on
MemoClearWrite(s, fail) ==
    /\ last = NoLast
    /\ pc[s] = "clear_put"
    /\ LET r == put_file(memoFile, "", loc[s].sha, nextSha, fail) IN
       IF r.raised
       THEN /\ Finish(s, Done(s, "memo_clear", "error", r.status, loc[s].sha))
            /\ UNCHANGED <<tab14, snipFile, memoFile, nextSha, ss, acked, reorders, memoSeen>>
       ELSE /\ CanWrite
            /\ memoFile' = r.file
            /\ nextSha' = nextSha + 1
            /\ ss' = [ss EXCEPT ![s] = [@ EXCEPT !.memo_area = ""]]
            /\ memoSeen' = [memoSeen EXCEPT ![s] = r.sha]
            /\ Finish(s, Done(s, "memo_clear", "toast", r.status, loc[s].sha))
            /\ UNCHANGED <<tab14, snipFile, acked, reorders>>

\* ------------------------------------------------------------------------
\* Tab 1: files
\* ------------------------------------------------------------------------
\* the "del" query handler, delete_file up to "if not sha"; k is the position
\* of the path the request names
DelFileRead(s, k, fail) ==
    /\ last = NoLast
    /\ pc[s] = "idle"
    /\ LET g == get_file_sha_if_exists(files[k], fail) IN
       IF g.raised
       THEN /\ FinishT(s, [Done(s, "delf", "error", 0, None) EXCEPT
                              !.idx = k, !.read = 500])
            /\ UNCHANGED <<tab23, nextSha, files, upl, plFiles, pls>>
       ELSE IF delete_file_skips(g.sha)
       THEN /\ FinishT(s, [Done(s, "delf", "toast", 0, None) EXCEPT
                              !.idx = k, !.read = IF g.info THEN 200 ELSE 404])
            /\ UNCHANGED <<tab23, nextSha, files, upl, plFiles, pls>>
       ELSE /\ pc' = [pc EXCEPT ![s] = "delf_put"]
            /\ tloc' = [tloc EXCEPT ![s] =
                           [NoTLoc EXCEPT !.candidate = k, !.sha = g.sha]]
            /\ UNCHANGED <<tab23, nextSha, files, upl, plFiles, pls, last>>

\* the "del" query handler, from requests.delete on
DelFileWrite(s, fail) ==
    /\ last = NoLast
    /\ pc[s] = "delf_put"
    /\ LET k == tloc[s].candidate
           r == delete_file_request(files[k], tloc[s].sha, fail)
       IN
       /\ files' = [files EXCEPT ![k] = r.file]
       /\ FinishT(s, [Done(s, "delf", IF r.raised THEN "error" ELSE "toast",
                            r.status, tloc[s].sha) EXCEPT
                          !.idx = k,
                          !.read = IF tloc[s].sha = None THEN 404 ELSE 200])
    /\ UNCHANGED <<tab23, nextSha, upl, plFiles, pls>>

\* a file is put into st.file_uploader: "if ready and files", the check of
\* _uploaded_selection_sig
UploadSelect(s, f) ==
    /\ last = NoLast
    /\ pc[s] = "idle"
    /\ IF upl[s]._uploaded_selection_sig = fps(f)
       THEN /\ FinishT(s, Done(s, "upload", "none", 0, None))
            /\ UNCHANGED <<tab23, nextSha, files, upl, plFiles, pls>>
       ELSE /\ pc' = [pc EXCEPT ![s] = "up_probe"]
            /\ tloc' = [tloc EXCEPT ![s] = [NoTLoc EXCEPT !.f = f]]
            /\ UNCHANGED <<tab23, nextSha, files, upl, plFiles, pls, last>>

\* one turn of "while get_file_sha_if_exists(candidate)[0]:"; a raise ends
\* the file as an error entry of results
UploadProbe(s, fail) ==
    /\ last = NoLast
    /\ pc[s] = "up_probe"
    /\ LET k == tloc[s].candidate
           g == get_file_sha_if_exists(files[k], fail)
           n == tloc[s].gets + 1
       IN
       IF g.raised
       THEN /\ upl' = [upl EXCEPT ![s]._uploaded_selection_sig = fps(tloc[s].f)]
            /\ FinishT(s, [Done(s, "upload", "warning", 0, None) EXCEPT
                              !.idx = k, !.n = n])
            /\ UNCHANGED <<tab23, nextSha, files, plFiles, pls>>
       ELSE IF g.sha # None
       THEN /\ k < MaxCopies
            /\ tloc' = [tloc EXCEPT ![s].candidate = k + 1, ![s].gets = n]
            /\ UNCHANGED <<tab23, nextSha, files, upl, plFiles, pls, pc, last>>
       ELSE /\ pc' = [pc EXCEPT ![s] = "up_put"]
            /\ tloc' = [tloc EXCEPT ![s].gets = n]
            /\ UNCHANGED <<tab23, nextSha, files, upl, plFiles, pls, last>>

\* content = f.read(), the size check, put_file(..., None) and the end of
\* the upload handler
UploadPut(s, fail) ==
    /\ last = NoLast
    /\ pc[s] = "up_put"
    /\ LET k == tloc[s].candidate
           f == tloc[s].f
           r == put_file(files[k], f, None, nextSha, fail)
           l == [Done(s, "upload", "warning", 0, None) EXCEPT
                    !.idx = k, !.n = tloc[s].gets]
       IN
       IF upload_too_large(f)
       THEN /\ upl' = [upl EXCEPT ![s]._uploaded_selection_sig = fps(f)]
            /\ FinishT(s, l)
            /\ UNCHANGED <<tab23, nextSha, files, plFiles, pls>>
       ELSE IF r.raised
       THEN /\ upl' = [upl EXCEPT ![s]._uploaded_selection_sig = fps(f)]
            /\ FinishT(s, [l EXCEPT !.status = r.status, !.n = tloc[s].gets + 1])
            /\ UNCHANGED <<tab23, nextSha, files, plFiles, pls>>
       ELSE /\ CanWrite
            /\ files' = [files EXCEPT ![k] = r.file]
            /\ nextSha' = nextSha + 1
            /\ upl' = [upl EXCEPT ![s] =
                          [_uploaded_selection_sig |-> fps(f),
                           uploader_key |-> @.uploader_key + 1]]
            /\ FinishT(s, [l EXCEPT !.msg = "toast", !.status = r.status,
                                    !.n = tloc[s].gets + 1])
            /\ UNCHANGED <<tab23, plFiles, pls>>

\* ------------------------------------------------------------------------
\* Tab 4: playlist
\* ------------------------------------------------------------------------
\* a handler of the tab that only changes the session's playlist state
PlaylistStep(s, st) ==
    /\ last = NoLast
    /\ pc[s] = "idle"
    /\ pls' = [pls EXCEPT ![s] = st]
    /\ UNCHANGED <<tab23, nextSha, files, upl, plFiles, tloc, pc, last>>

\* "add" of the add form: playlist.append(tr); "if len(playlist) == 1"
AddTrack(s, tr) ==
    /\ Len(pls[s].playlist) < MaxTracks
    /\ LET pl == Append(pls[s].playlist, tr) IN
       PlaylistStep(s, [pls[s] EXCEPT
                          !.playlist = pl,
                          !.current_index = IF Len(pl) = 1 THEN 0 ELSE @])

\* the clear button of the header
ClearPlaylist(s) ==
    PlaylistStep(s, [pls[s] EXCEPT !.is_playing = FALSE,
                                   !.play_start_ts = NoneTs,
                                   !.elapsed_acc = 0,
                                   !.current_index = 0,
                                   !.playlist = <<>>])

\* the play/pause button of the header, time.time() reading now
PlayPause(s, now) ==
    /\ _elapsed_now(pls[s], now) <= MaxElapsed
    /\ PlaylistStep(s, Toggled(pls[s], now))

\* the play button of row i: the current row toggles, another row becomes
\* current and plays from its start
SelectTrack(s, i, now) ==
    /\ i < Len(pls[s].playlist)
    /\ _elapsed_now(pls[s], now) <= MaxElapsed
    /\ PlaylistStep(s, IF i = pls[s].current_index
                       THEN Toggled(pls[s], now)
                       ELSE [pls[s] EXCEPT !.current_index = i,
                                           !.elapsed_acc = 0,
                                           !.play_start_ts = now,
                                           !.is_playing = TRUE])

\* the up button of row i: "and i > 0"
MoveUp(s, i, now) ==
    /\ i < Len(pls[s].playlist)
    /\ i > 0
    /\ _elapsed_now(pls[s], now) <= MaxElapsed
    /\ PlaylistStep(s, [Paused(pls[s], now) EXCEPT
                          !.playlist = SwapWithPrev(@, i),
                          !.current_index = IF @ = i THEN @ - 1
                                            ELSE IF @ = i - 1 THEN @ + 1 ELSE @])

\* the down button of row i: "and i < len(pl)-1"
MoveDown(s, i, now) ==
    /\ i < Len(pls[s].playlist) - 1
    /\ _elapsed_now(pls[s], now) <= MaxElapsed
    /\ PlaylistStep(s, [Paused(pls[s], now) EXCEPT
                          !.playlist = SwapWithPrev(@, i + 1),
                          !.current_index = IF @ = i THEN @ + 1
                                            ELSE IF @ = i + 1 THEN @ - 1 ELSE @])

\* the delete button of row i: del pl[i]; "if current_index >= len(pl)"
DeleteTrack(s, i, now) ==
    /\ i < Len(pls[s].playlist)
    /\ _elapsed_now(pls[s], now) <= MaxElapsed
    /\ LET pl == Without(pls[s].playlist, i + 1) IN
       PlaylistStep(s, [Paused(pls[s], now) EXCEPT
                          !.playlist = pl,
                          !.current_index =
                              IF @ >= Len(pl)
                              THEN (IF Len(pl) - 1 > 0 THEN Len(pl) - 1 ELSE 0)
                              ELSE @])

\* the load button of a row of the saved playlists (the row is there, so the
\* listing has just shown the object): load_playlist_from_repo, then
\* st.success or st.error
LoadPlaylist(s, p, fail) ==
    /\ last = NoLast
    /\ pc[s] = "idle"
    /\ plFiles[p].exists
    /\ LET r == load_playlist_from_repo(pls[s], plFiles[p], fail) IN
       /\ pls' = [pls EXCEPT ![s] = r.st]
       /\ FinishT(s, [Done(s, "pl_load", IF r.ok THEN "toast" ELSE "error",
                            0, None) EXCEPT
                          !.read = IF fail THEN 500 ELSE 200])
    /\ UNCHANGED <<tab23, nextSha, files, upl, plFiles>>

\* the save prompt's button, save_current_playlist_to_repo up to its GET;
\* nothing catches what get_file_sha_if_exists raises ("exception")
PlSaveRead(s, raw, fail) ==
    /\ last = NoLast
    /\ pc[s] = "idle"
    /\ LET name == strip(raw)
           path == _pl_path(name)
       IN
       IF name = <<>>
       THEN /\ FinishT(s, Done(s, "pl_save", "error", 0, None))
            /\ UNCHANGED <<tab23, nextSha, files, upl, plFiles, pls>>
       ELSE LET g == get_file_sha_if_exists(plFiles[path], fail) IN
            IF g.raised
            THEN /\ FinishT(s, [Done(s, "pl_save", "exception", 0, None) EXCEPT
                                   !.read = 500])
                 /\ UNCHANGED <<tab23, nextSha, files, upl, plFiles, pls>>
            ELSE /\ pc' = [pc EXCEPT ![s] = "pl_save_put"]
                 /\ tloc' = [tloc EXCEPT ![s] =
                                [NoTLoc EXCEPT !.path = path, !.sha = g.sha,
                                               !.body = save_body(name, pls[s])]]
                 /\ UNCHANGED <<tab23, nextSha, files, upl, plFiles, pls, last>>

\* save_current_playlist_to_repo from put_file on; nothing catches what
\* put_file raises
PlSaveWrite(s, fail) ==
    /\ last = NoLast
    /\ pc[s] = "pl_save_put"
    /\ CanWrite
    /\ LET path == tloc[s].path
           r == put_file(plFiles[path], tloc[s].body, tloc[s].sha,
                         nextSha + 1, fail)
       IN
       /\ plFiles' = [plFiles EXCEPT ![path] = r.file]
       /\ nextSha' = IF r.raised THEN nextSha ELSE nextSha + 1
       /\ FinishT(s, [Done(s, "pl_save",
                            IF r.raised THEN "exception" ELSE "toast",
                            r.status, tloc[s].sha) EXCEPT
                          !.read = IF tloc[s].sha = None THEN 404 ELSE 200])
    /\ UNCHANGED <<tab23, files, upl, pls>>

\* "add at the end" of the add-to-another-list dialog (its rows come from
\* the listing): append_track_to_playlist_path up to its GET
PlAppendRead(s, p, tr, fail) ==
    /\ last = NoLast
    /\ pc[s] = "idle"
    /\ plFiles[p].exists
    /\ Len(plFiles[p].content.tracks) < MaxTracks + 1
    /\ LET g == get_file_sha_if_exists(plFiles[p], fail) IN
       IF g.raised
       THEN /\ FinishT(s, [Done(s, "pl_append", "error", 0, None) EXCEPT
                              !.read = 500])
            /\ UNCHANGED <<tab23, nextSha, files, upl, plFiles, pls>>
       ELSE /\ pc' = [pc EXCEPT ![s] = "pl_app_put"]
            /\ tloc' = [tloc EXCEPT ![s] =
                           [NoTLoc EXCEPT !.path = p, !.sha = g.sha,
                                          !.body = append_body(g, p, PendingTrack(tr)),
                                          !.old = IF g.info THEN g.content
                                                  ELSE PlList(<<>>)]]
            /\ UNCHANGED <<tab23, nextSha, files, upl, plFiles, pls, last>>

\* append_track_to_playlist_path from put_file on
PlAppendWrite(s, fail) ==
    /\ last = NoLast
    /\ pc[s] = "pl_app_put"
    /\ CanWrite
    /\ LET path == tloc[s].path
           r == put_file(plFiles[path], tloc[s].body, tloc[s].sha,
                         nextSha + 1, fail)
       IN
       /\ plFiles' = [plFiles EXCEPT ![path] = r.file]
       /\ nextSha' = IF r.raised THEN nextSha ELSE nextSha + 1
       /\ FinishT(s, [Done(s, "pl_append",
                            IF r.raised THEN "error" ELSE "toast",
                            r.status, tloc[s].sha) EXCEPT
                          !.read = IF tloc[s].sha = None THEN 404 ELSE 200])
    /\ UNCHANGED <<tab23, files, upl, pls>>

\* the delete button of a row of the saved playlists:
\* delete_playlist_by_path, delete_file up to "if not sha"
PlDeleteRead(s, p, fail) ==
    /\ last = NoLast
    /\ pc[s] = "idle"
    /\ plFiles[p].exists
    /\ LET g == get_file_sha_if_exists(plFiles[p], fail) IN
       IF g.raised
       THEN /\ FinishT(s, [Done(s, "pl_delete", "error", 0, None) EXCEPT
                              !.read = 500])
            /\ UNCHANGED <<tab23, nextSha, files, upl, plFiles, pls>>
       ELSE IF delete_file_skips(g.sha)
       THEN /\ FinishT(s, [Done(s, "pl_delete", "toast", 0, None) EXCEPT
                              !.read = 404])
            /\ UNCHANGED <<tab23, nextSha, files, upl, plFiles, pls>>
       ELSE /\ pc' = [pc EXCEPT ![s] = "pl_del_put"]
            /\ tloc' = [tloc EXCEPT ![s] =
                           [NoTLoc EXCEPT !.path = p, !.sha = g.sha]]
            /\ UNCHANGED <<tab23, nextSha, files, upl, plFiles, pls, last>>

\* delete_playlist_by_path, from requests.delete on
PlDeleteWrite(s, fail) ==
    /\ last = NoLast
    /\ pc[s] = "pl_del_put"
    /\ LET path == tloc[s].path
           r == delete_file_request(plFiles[path], tloc[s].sha, fail)
       IN
       /\ plFiles' = [plFiles EXCEPT ![path] = r.file]
       /\ FinishT(s, [Done(s, "pl_delete",
                            IF r.raised THEN "error" ELSE "toast",
                            r.status, tloc[s].sha) EXCEPT !.read = 200])
    /\ UNCHANGED <<tab23, nextSha, files, upl, pls>>

\* a "finally" that takes the parameter out of the URL only after a toast
query_params_after_toast(u, l) ==
    IF l.op \in {"delf", "del", "reo"} /\ l.msg = "toast"
    THEN [u EXCEPT ![l.s] = NoParam]
    ELSE u

\* the "finally" of the three query handlers, u the sessions' query
\* parameters and l what the handler showed: "del st.query_params[...]" for
\* the handler's parameter, after a toast as after an error
query_params_after(u, l) ==
    IF l.op \in {"delf", "del", "reo"}
    THEN [u EXCEPT ![l.s] = NoParam]
    ELSE u

\* the script run ends, with the st.rerun() that closes a query handler's
\* "finally" or at the end of the script: what the handler showed is no
\* longer the latest thing on screen
EndRun ==
    /\ last # NoLast
    /\ last' = NoLast
    /\ url' = query_params_after(url, last)
    /\ UNCHANGED <<files, upl, plFiles, pls, tloc, arg, res>>
    /\ UNCHANGED <<snipFile, memoFile, nextSha, ss, pc, loc, acked, reorders, memoSeen>>

\* ------------------------------------------------------------------------
\* The query parameters
\* ------------------------------------------------------------------------
\* the handler a query parameter starts
HandlerOf(kind) ==
    CASE kind = "del" -> "delf"
      [] kind = "snip_del" -> "del"
      [] kind = "snip_reorder" -> "reo"
      [] OTHER -> "none"

\* the page is opened with a query parameter: the link of a file row, of a
\* chip's delete mark, or the one the dragging of the chips builds
Navigate(s, p) ==
    /\ last = NoLast
    /\ pc[s] = "idle"
    /\ url[s] = NoParam
    /\ url' = [url EXCEPT ![s] = p]
    /\ UNCHANGED <<files, upl, plFiles, pls, tloc, arg, res>>
    /\ UNCHANGED <<snipFile, memoFile, nextSha, ss, pc, loc, last, acked, reorders, memoSeen>>

\* the parameters a session's page builds
Params(s) ==
    { [NoParam EXCEPT !.kind = "del", !.idx = k] : k \in {0} }
    \cup { [NoParam EXCEPT !.kind = "snip_del", !.idx = i] : i \in DelIdx }
    \cup { [NoParam EXCEPT !.kind = "snip_reorder", !.arr = a] :
              a \in Perms(ss[s].snippets) \ { <<>> } }

\* "enc_val = qs.get('del')", "del_snip = qs.get('snip_del')",
\* "snip_reorder = qs.get('snip_reorder')": the handlers run on what the URL
\* carries
QueryActions(s, fail) ==
    \/ \E p \in Params(s) : Navigate(s, p)
    \/ url[s].kind = "del" /\ DelFileRead(s, url[s].idx, fail)
    \/ url[s].kind = "del" /\ DelFileWrite(s, fail)
    \/ url[s].kind = "snip_del" /\ SnipDelRead(s, url[s].idx, fail)
    \/ url[s].kind = "snip_del" /\ SnipDelWrite(s, fail)
    \/ url[s].kind = "snip_reorder" /\ SnipReorderRead(s, url[s].arr, fail)
    \/ url[s].kind = "snip_reorder" /\ SnipReorderWrite(s, fail)

\* ------------------------------------------------------------------------
\* Specifications
\* ------------------------------------------------------------------------
\* the first script run of a session: tab 2 before tab 3
FirstRun(s, fail) ==
    \/ MemoAutoload(s, fail)
    \/ SnipAutoload(s, fail)

SnipActions(s, fail) ==
    \/ \E raw \in RegInputs : RegisterRead(s, raw, fail)
    \/ RegisterWrite(s, fail)
    \/ \E idx \in DelIdx : SnipDelRead(s, idx, fail)
    \/ SnipDelWrite(s, fail)
    \/ \E arr \in Perms(ss[s].snippets) :
          Len(arr) > 0 /\ SnipReorderRead(s, arr, fail)
    \/ SnipReorderWrite(s, fail)

MemoActions(s, fail) ==
    \/ \E text \in MemoTexts : MemoEdit(s, text)
    \/ MemoLoad(s, fail)
    \/ MemoSaveRead(s, fail)
    \/ MemoSaveWrite(s, fail)
    \/ MemoClearRead(s, fail)
    \/ MemoClearWrite(s, fail)

\* the sessions work on the snippet tab only
SnipNext ==
    \/ \E s \in Sessions, fail \in BOOLEAN :
          FirstRun(s, fail) \/ SnipActions(s, fail)
    \/ EndRun

\* the memo object plays no part on the snippet tab
SnipInit == Init /\ memoFile = Absent /\ files = EmptyFolder /\ plFiles = NoPlaylists

SnipSpec == SnipInit /\ [][SnipNext]_vars

\* the sessions only register snippets
RegNext ==
    \/ \E s \in Sessions, fail \in BOOLEAN :
          \/ FirstRun(s, fail)
          \/ \E raw \in RegInputs : RegisterRead(s, raw, fail)
          \/ RegisterWrite(s, fail)
    \/ EndRun

RegSpec == SnipInit /\ [][RegNext]_vars

\* the sessions only register snippets, with the inputs around "title:content"
RegEdgeNext ==
    \/ \E s \in Sessions, fail \in BOOLEAN :
          \/ FirstRun(s, fail)
          \/ \E raw \in RegEdgeInputs : RegisterRead(s, raw, fail)
          \/ RegisterWrite(s, fail)
    \/ EndRun

RegEdgeSpec == SnipInit /\ [][RegEdgeNext]_vars

\* the sessions work on the memo tab only
MemoNext ==
    \/ \E s \in Sessions, fail \in BOOLEAN :
          FirstRun(s, fail) \/ MemoActions(s, fail)
    \/ EndRun

\* the snippets object plays no part on the memo tab
MemoInit == Init /\ snipFile = Absent /\ files = EmptyFolder /\ plFiles = NoPlaylists

MemoSpec == MemoInit /\ [][MemoNext]_vars

FileActions(s, fail) ==
    \/ \E f \in UploadFiles : UploadSelect(s, f)
    \/ UploadProbe(s, fail)
    \/ UploadPut(s, fail)
    \/ \E k \in Copies : DelFileRead(s, k, fail)
    \/ DelFileWrite(s, fail)

\* the sessions work on the file tab only
FileNext ==
    \/ \E s \in Sessions, fail \in BOOLEAN : FileActions(s, fail)
    \/ EndRun

FileInit ==
    Init /\ snipFile = Absent /\ memoFile = Absent /\ plFiles = NoPlaylists

FileSpec == FileInit /\ [][FileNext]_vars

Rows == 0..(MaxTracks - 1)

\* the handlers of tab 4 that touch the session's playlist, the clock
\* reading one of clock
PlaylistActionsAt(s, fail, clock) ==
    \/ \E tr \in {T1, T2} : AddTrack(s, tr)
    \/ ClearPlaylist(s)
    \/ \E now \in clock : PlayPause(s, now)
    \/ \E i \in Rows, now \in clock : SelectTrack(s, i, now)
    \/ \E i \in Rows, now \in clock : MoveUp(s, i, now)
    \/ \E i \in Rows, now \in clock : MoveDown(s, i, now)
    \/ \E i \in Rows, now \in clock : DeleteTrack(s, i, now)
    \/ \E p \in PlPaths : LoadPlaylist(s, p, fail)

PlaylistActions(s, fail) == PlaylistActionsAt(s, fail, Times)

\* the handlers of tab 4 that write to the playlist folder
PlStoreActions(s, fail) ==
    \/ \E raw \in PlNames : PlSaveRead(s, raw, fail)
    \/ PlSaveWrite(s, fail)
    \/ \E p \in PlPaths : PlAppendRead(s, p, T2, fail)
    \/ PlAppendWrite(s, fail)
    \/ \E p \in PlPaths : PlDeleteRead(s, p, fail)
    \/ PlDeleteWrite(s, fail)

PlInit ==
    Init /\ snipFile = Absent /\ memoFile = Absent /\ files = EmptyFolder

\* the sessions play with their playlists and load stored ones, within one
\* reading of the clock
PlaylistNext ==
    \/ \E s \in Sessions, fail \in BOOLEAN : PlaylistActionsAt(s, fail, {0})
    \/ EndRun

PlaylistSpec == PlInit /\ [][PlaylistNext]_vars

\* one session plays with its playlist and loads stored ones
PlayerNext ==
    \/ \E fail \in BOOLEAN : PlaylistActions("s1", fail)
    \/ EndRun

PlayerSpec == PlInit /\ [][PlayerNext]_vars

\* the sessions add tracks and save, append to and delete stored playlists
PlStoreNext ==
    \/ \E s \in Sessions, fail \in BOOLEAN :
          \/ AddTrack(s, T1)
          \/ PlStoreActions(s, fail)
    \/ EndRun

PlStoreSpec == PlInit /\ [][PlStoreNext]_vars

\* the sessions add tracks and save their playlists
PlSaveNext ==
    \/ \E s \in Sessions, fail \in BOOLEAN :
          \/ AddTrack(s, T1)
          \/ \E raw \in PlNames : PlSaveRead(s, raw, fail)
          \/ PlSaveWrite(s, fail)
    \/ EndRun

PlSaveSpec == PlInit /\ [][PlSaveNext]_vars

\* the sessions open the page with query parameters
QueryNext ==
    \/ \E s \in Sessions, fail \in BOOLEAN :
          FirstRun(s, fail) \/ QueryActions(s, fail)
    \/ EndRun

QueryInit == Init /\ memoFile = Absent /\ plFiles = NoPlaylists

QuerySpec == QueryInit /\ [][QueryNext]_vars

Next ==
    \/ \E s \in Sessions, fail \in BOOLEAN :
          \/ FirstRun(s, fail)
          \/ SnipActions(s, fail)
          \/ MemoActions(s, fail)
          \/ FileActions(s, fail)
          \/ PlaylistActions(s, fail)
          \/ PlStoreActions(s, fail)
          \/ QueryActions(s, fail)
    \/ EndRun

Spec == Init /\ [][Next]_vars

\* ------------------------------------------------------------------------
\* The helper functions applied on their own
\* ------------------------------------------------------------------------
\* the store and the sessions play no part
HelperStart ==
    /\ ProgramInit
    /\ snipFile = Absent /\ memoFile = Absent
    /\ files = EmptyFolder /\ plFiles = NoPlaylists
    /\ res = NoArg

\* everything but arg and res
program ==
    <<snipFile, memoFile, nextSha, ss, pc, loc, last, acked, reorders, memoSeen,
      files, upl, plFiles, pls, tloc, url>>

Returns(out) ==
    /\ res = NoArg
    /\ res' = [fn |-> arg.fn, out |-> out]
    /\ UNCHANGED <<program, arg>>

\* [_serialize_track(t) for t in tracks] handed to _deserialize_tracks
RoundTrip ==
    /\ arg.fn = "roundtrip"
    /\ Returns(_deserialize_tracks(PlList(SerializeAll(arg.x))))

Normalize ==
    /\ arg.fn = "normalize"
    /\ Returns(_normalize_snippet_item(arg.x))

\* save_snippets on an absent object: out is the list it wrote
SaveList ==
    /\ arg.fn = "save"
    /\ Returns(save_snippets(Absent, arg.x, None, nextSha, FALSE).file.content)

Sanitize ==
    /\ arg.fn = "sanitize"
    /\ Returns(_sanitize_filename(arg.x))

Totals ==
    /\ arg.fn = "totals"
    /\ Returns([total  |-> _playlist_total_secs(arg.x),
                before |-> _sum_before_index(arg.x, arg.idx)])

TrackInit ==
    /\ HelperStart
    /\ \E x \in SeqsUpTo(SomeTracks, MaxTracks) : arg = [fn |-> "roundtrip", x |-> x]

TrackSpec == TrackInit /\ [][RoundTrip]_vars

ItemInit ==
    /\ HelperStart
    /\ \/ \E x \in SomeItems : arg = [fn |-> "normalize", x |-> x]
       \/ \E x \in SeqsUpTo(SomeItems, MaxItems) : arg = [fn |-> "save", x |-> x]

ItemNext == Normalize \/ SaveList

ItemSpec == ItemInit /\ [][ItemNext]_vars

NameInit ==
    /\ HelperStart
    /\ \E x \in SeqsUpTo(NameChars, MaxName) : arg = [fn |-> "sanitize", x |-> x]

NameSpec == NameInit /\ [][Sanitize]_vars

TotalsInit ==
    /\ HelperStart
    /\ \E d \in SeqsUpTo(SomeDurations, MaxDurations), idx \in (0 - 1)..(MaxDurations + 1) :
          arg = [fn |-> "totals", idx |-> idx,
                 x |-> [i \in 1..Len(d) |-> TrackOf(d[i])]]

TotalsSpec == TotalsInit /\ [][Totals]_vars

\* ------------------------------------------------------------------------
\* Properties
\* ------------------------------------------------------------------------
SnipPutPcs == {"reg_put", "del_put", "reo_put"}
MemoPutPcs == {"memo_put", "clear_put"}

\* this step is session s receiving the answer to the PUT of a handler in pcs
EndsPut(s, pcs) == pc[s] \in pcs /\ pc'[s] = "idle"

\* the store accepted the PUT of this step
Accepted == last'.status \in {200, 201}

Occurs(x, list) == \E i \in 1..Len(list) : list[i] = x

Count(x, list) == Cardinality({i \in 1..Len(list) : list[i] = x})

IsPermutation(a, b) ==
    /\ Len(a) = Len(b)
    /\ \A i \in 1..Len(a) : Count(a[i], a) = Count(a[i], b)

\* r is l without the element at the 0-based position idx
IsRemoval(l, idx, r) ==
    /\ 0 <= idx /\ idx < Len(l)
    /\ Len(r) = Len(l) - 1
    /\ \A k \in 1..Len(r) : r[k] = IF k <= idx THEN l[k] ELSE l[k + 1]

\* C1 (as claimed): when the sessions only register snippets and all of them
\* have finished, every snippet whose registration was announced as done is in
\* the stored list.
C1_AckedRegistrationsStored ==
    (\A s \in Sessions : pc[s] = "idle")
        => \A x \in acked : Occurs(x, snipFile.content)

\* C2: when two sessions are both between the read and the write of a snippet
\* handler and hold the same version token, the first PUT the store answers
\* is accepted and announced, after which the other session's token is stale;
\* and a PUT carrying a stale token is rejected, leaves the object and the
\* session's list untouched, and is shown as an error.
C2_OneOfTwoWritersWins ==
    [][\A s \in Sessions :
         /\ \A t \in Sessions \ {s} :
              ( /\ EndsPut(s, SnipPutPcs)
                /\ pc[t] \in SnipPutPcs
                /\ loc[s].sha # None
                /\ loc[s].sha = loc[t].sha
                /\ last'.status # 500 )
              => /\ Accepted
                 /\ last'.msg = "toast"
                 /\ snipFile'.sha # loc[t].sha
         /\ ( /\ EndsPut(s, SnipPutPcs)
              /\ loc[s].sha # None
              /\ loc[s].sha # snipFile.sha )
            => /\ last'.status \in {409, 500}
               /\ last'.msg = "error"
               /\ snipFile' = snipFile
               /\ ss'[s] = ss[s]
      ]_vars

\* C2 witness: a session has just been shown the rejection of a PUT that
\* carried a token, while the other session holds the current token.
C2_LoserShownFailure ==
    /\ last.op \in {"reg", "del", "reo"}
    /\ last.status = 409
    /\ last.msg = "error"
    /\ last.sha # None
    /\ \E s \in Sessions \ {last.s} : ss[s]._snip_sha = snipFile.sha

\* C3: a put_file that carries the current token V1 of an existing object is
\* accepted and the object gets a token V2 # V1; a put_file that carries a
\* token that is not the current one is rejected and leaves content and token
\* as they are (so after V1 -> V2, V1 is refused and V2 is accepted).
C3_TokenGatesWrite ==
    [][\A s \in Sessions :
         ( /\ EndsPut(s, MemoPutPcs)
           /\ loc[s].sha # None
           /\ last'.status # 500 )
         => IF memoFile.exists /\ loc[s].sha = memoFile.sha
            THEN /\ last'.status = 200
                 /\ memoFile'.exists
                 /\ memoFile'.sha # memoFile.sha
                 /\ memoFile'.content = IF pc[s] = "memo_put" THEN loc[s].body ELSE ""
            ELSE /\ last'.status = 409
                 /\ memoFile' = memoFile
      ]_vars

\* C3 witness: the object has gone from V1 to a later token and a PUT that
\* still carried V1 has just been refused.
C3_StaleTokenRefused ==
    /\ last.op \in {"memo_save", "memo_clear"}
    /\ last.status = 409
    /\ last.sha # None
    /\ memoFile.exists
    /\ last.sha < memoFile.sha

\* C4 (as claimed): a memo save that is announced as done and changes the
\* stored memo replaces the memo version the session's text area was based
\* on (memoSeen), not one that another session stored later.
C4_SaveCommitsAgainstLoadedMemo ==
    [][\A s \in Sessions :
         ( /\ EndsPut(s, {"memo_put"})
           /\ last'.msg = "toast"
           /\ memoFile.exists
           /\ memoFile'.content # memoFile.content )
         => memoFile.sha = memoSeen[s]
      ]_vars

\* C5 (as claimed): a snippet delete asked for at an index of the session's
\* chip bar, when it removes an element from the stored list, removes the
\* snippet that chip showed.
C5_DeleteRemovesDisplayedSnippet ==
    [][\A s \in Sessions :
         (EndsPut(s, {"del_put"}) /\ Accepted /\ loc[s].shown # NoItem)
         => /\ IsRemoval(snipFile.content, loc[s].idx, snipFile'.content)
            /\ snipFile.content[loc[s].idx + 1] = loc[s].shown
      ]_vars

\* C6 (as claimed): after a successful reorder the stored list is a
\* permutation of the list that was stored just before the reorder's write.
C6_ReorderKeepsStoredSnippets ==
    [][\A s \in Sessions :
         (EndsPut(s, {"reo_put"}) /\ Accepted)
         => IsPermutation(snipFile'.content, snipFile.content)
      ]_vars

\* C7: a snippet delete whose index is negative or not below the length of
\* the list it has read sends no PUT and leaves the stored list and its
\* version token as they are.
C7_OutOfRangeDeleteSendsNoWrite ==
    [][( /\ last = NoLast
         /\ last'.op = "del"
         /\ ~(0 <= last'.idx /\ last'.idx < last'.n) )
       => /\ last'.status = 0
          /\ snipFile' = snipFile
          /\ nextSha' = nextSha
      ]_vars

\* C7 witness: a delete with a negative index against a non-empty stored list
\* has finished without a PUT.
C7_NegativeIndexDeleteDone ==
    /\ last.op = "del"
    /\ last.idx < 0
    /\ last.n > 0
    /\ last.status = 0
    /\ Len(snipFile.content) = last.n

\* C8 (as claimed): the snip_del handler announces a deletion only when a
\* deletion was written.
C8_DeletionToastMeansDeleted ==
    (last.op = "del" /\ last.msg = "toast") => last.status \in {200, 201}

\* C9: a successful snippet delete at index idx finds the stored list equal to
\* the list L it read (no other session wrote) and leaves it equal to L
\* without the element at idx, the others in their order.
C9_DeleteRemovesExactlyIndex ==
    [][\A s \in Sessions :
         (EndsPut(s, {"del_put"}) /\ Accepted)
         => /\ snipFile.content = loc[s].current
            /\ IsRemoval(loc[s].current, loc[s].idx, snipFile'.content)
      ]_vars

\* C9 witness: index 1 of a stored list of three has just been deleted.
C9_MiddleOfThreeDeleted ==
    /\ last.op = "del"
    /\ last.status = 200
    /\ last.idx = 1
    /\ last.n = 3
    /\ Len(snipFile.content) = 2

\* C10: after a successful snippet reorder to order O, load_snippets reads
\* back exactly O; this holds for every reorder, so after O1 then O2 the
\* stored list is O2.
C10_ReorderReadsBack ==
    [][\A s \in Sessions :
         (EndsPut(s, {"reo_put"}) /\ Accepted)
         => LET r == load_snippets(snipFile', FALSE) IN
            /\ ~r.raised
            /\ r.list = loc[s].payload
            /\ r.sha = ss'[s]._snip_sha
      ]_vars

\* C10 witness: the second of two reorders in a row, of a list of at least
\* two snippets, has just been stored.
C10_SecondReorderStored ==
    /\ last.op = "reo"
    /\ last.status = 200
    /\ reorders = 2
    /\ Len(snipFile.content) >= 2

\* C11: after every accepted snippet add, delete-by-index or reorder, the
\* session's in-memory list (st.session_state.snippets) equals the list the
\* store now holds and the session's _snip_sha equals the token the store
\* issued for that write.
C11_SessionHoldsWrittenBaseline ==
    [][\A s \in Sessions :
         (EndsPut(s, SnipPutPcs) /\ Accepted)
         => /\ ss'[s].snippets = snipFile'.content
            /\ ss'[s]._snip_sha = snipFile'.sha
            /\ ss'[s]._snip_sha = nextSha
            /\ ss'[s]._snip_sha # loc[s].sha
      ]_vars

\* C11 witness: a registration that made the stored list three snippets long
\* has just been announced and the session holds that list and its token.
C11_SessionHoldsRegisteredList ==
    /\ last.op = "reg"
    /\ last.msg = "toast"
    /\ Len(snipFile.content) = 3
    /\ \E s \in Sessions :
          /\ last.s = s
          /\ ss[s].snippets = snipFile.content
          /\ ss[s]._snip_sha = snipFile.sha

\* C17 (as claimed): snippet registration never stores a snippet whose text
\* is empty: no stored snippet has the empty text, whatever was typed.
C17_NoEmptySnippetStored ==
    \A i \in 1..Len(snipFile.content) : snipFile.content[i].t # <<>>

\* C13: after delete_file has deleted the object at a path (the DELETE was
\* answered 200), get_file_sha_if_exists of that path returns (None, None).
C13_ReadAfterDeleteFindsNothing ==
    [][\A s \in Sessions :
         (pc[s] = "delf_put" /\ pc'[s] = "idle" /\ last'.status = 200)
         => LET g == get_file_sha_if_exists(files'[tloc[s].candidate], FALSE) IN
            /\ ~g.raised
            /\ g.sha = None
            /\ ~g.info
      ]_vars

\* C13 witness: an object that a session had uploaded has just been deleted.
C13_UploadedObjectDeleted ==
    /\ last.op = "delf"
    /\ last.status = 200
    /\ ~files[last.idx].exists
    /\ \E s \in Sessions : upl[s].uploader_key > 0

\* C14: delete_file on a path that holds no object (its read is answered
\* 404) sends no DELETE, leaves the store as it is and does not raise: the
\* handler ends with its toast; and no session is ever about to send a DELETE
\* without a sha.
C14_DeleteOfAbsentIsNoOp ==
    [][/\ (last = NoLast /\ last'.op = "delf" /\ last'.read = 404)
          => /\ last'.status = 0
             /\ last'.msg = "toast"
             /\ files' = files
             /\ nextSha' = nextSha
       /\ \A s \in Sessions : pc'[s] = "delf_put" => tloc'[s].sha # None
      ]_vars

\* C14 witness: a path whose object another delete had removed has just been
\* deleted again, as a no-op.
C14_SecondDeleteWasNoOp ==
    /\ last.op = "delf"
    /\ last.read = 404
    /\ last.status = 0
    /\ last.idx = 0
    /\ files # EmptyFolder

\* C15 (as claimed): once a session has uploaded N, putting a file named N
\* into the uploader again is not skipped, and when the store accepts the
\* PUT (no other session having uploaded) the file is stored at a name that
\* was unused, every other object staying as it is.
C15_SecondUploadStoredBesideFirst ==
    [][\A s \in Sessions :
         /\ ~( /\ last = NoLast /\ pc[s] = "idle"
               /\ upl[s].uploader_key > 0
               /\ last'.op = "upload" /\ last'.s = s )
         /\ ( /\ pc[s] = "up_put" /\ pc'[s] = "idle" /\ Accepted
              /\ \A o \in Sessions \ {s} : upl[o].uploader_key = 0 )
            => LET k == tloc[s].candidate IN
               /\ ~files[k].exists
               /\ files'[k].content = tloc[s].f
               /\ \A j \in Copies \ {k} : files'[j] = files[j]
      ]_vars

\* C16 (as claimed): when the upload handler refuses a file as too large, no
\* request of any kind has been sent to the store for that file.
C16_OversizedUploadSendsNothing ==
    [][\A s \in Sessions :
         (pc[s] = "up_put" /\ pc'[s] = "idle" /\ upload_too_large(tloc[s].f))
         => /\ last'.n = 0
            /\ last'.status = 0
      ]_vars

\* C12 (as claimed): whatever the store answers, the three playlist mutation
\* entry points end by returning their pair (shown as a toast or as an
\* error message); none ends with an exception that escaped it.
C12_PlaylistEntryPointsReturnPair ==
    last.op \in {"pl_save", "pl_append", "pl_delete"}
    => last.msg \in {"toast", "error"}

\* C18 (as claimed): in every session, current_index is 0 when the playlist
\* is empty and in [0, len(playlist)) otherwise.
C18_CurrentIndexInRange ==
    \A s \in Sessions :
        IF pls[s].playlist = <<>>
        THEN pls[s].current_index = 0
        ELSE pls[s].current_index \in 0..(Len(pls[s].playlist) - 1)

\* C19: two distinct names of the save prompt are mapped to the same path by
\* _sanitize_filename; and a save that finds at its path a saved playlist of
\* another name, the object being unchanged since the save's read and the
\* store not failing, is accepted as an update (200), reports success and
\* leaves its own document at the path.
C19_CollidingNameReplaces ==
    [][/\ \E n1, n2 \in PlNames :
             /\ strip(n1) # <<>> /\ strip(n2) # <<>>
             /\ strip(n1) # strip(n2)
             /\ _pl_path(strip(n1)) = _pl_path(strip(n2))
       /\ \A s \in Sessions :
             LET path == tloc[s].path IN
             ( /\ pc[s] = "pl_save_put" /\ pc'[s] = "idle"
               /\ plFiles[path].exists
               /\ plFiles[path].sha = tloc[s].sha
               /\ plFiles[path].content.kind = "dict"
               /\ plFiles[path].content.name # tloc[s].body.name
               /\ last'.status # 500 )
             => /\ last'.msg = "toast"
                /\ last'.status = 200
                /\ plFiles'[path].content = tloc[s].body
                /\ plFiles'[path].sha # plFiles[path].sha
      ]_vars

\* C19 witness: the one write so far was a save under the name "a!" that
\* found the playlist saved as "a" at its path and replaced it.
C19_SavedOverOtherName ==
    /\ last.op = "pl_save"
    /\ last.msg = "toast"
    /\ last.read = 200
    /\ nextSha = 3
    /\ plFiles[<<"a">>].exists
    /\ plFiles[<<"a">>].content.name = <<"a", "!">>

\* C20 (as claimed): an accepted append to a stored playlist as
\* save_current_playlist_to_repo writes it (an object with current_index
\* whose tracks are all objects) leaves
\* the stored name, the stored current_index and the stored tracks as they
\* were, with one track more at the end.
C20_AppendOnlyAddsTrack ==
    [][\A s \in Sessions :
         LET path == tloc[s].path
             old  == plFiles[path].content
             new  == plFiles'[path].content
         IN
         ( /\ pc[s] = "pl_app_put" /\ pc'[s] = "idle" /\ Accepted
           /\ plFiles[path].exists
           /\ old.kind = "dict"
           /\ old.has_index
           /\ \A i \in 1..Len(old.tracks) : old.tracks[i].kind = "dict" )
         => /\ new.name = old.name
            /\ new.has_index = old.has_index
            /\ new.current_index = old.current_index
            /\ Len(new.tracks) = Len(old.tracks) + 1
            /\ SubSeq(new.tracks, 1, Len(old.tracks)) = old.tracks
      ]_vars

\* C21 (as claimed): deserializing the serialized tracks gives as many tracks
\* in the same order, each with the video_id, title, duration and
\* thumbnail_url of the original, a missing duration and an empty thumbnail
\* included.
C21_RoundTripKeepsFields ==
    res.fn = "roundtrip"
    => /\ Len(res.out) = Len(arg.x)
       /\ \A i \in 1..Len(arg.x) :
             /\ res.out[i].video_id = arg.x[i].video_id
             /\ res.out[i].title = arg.x[i].title
             /\ res.out[i].duration = arg.x[i].duration
             /\ res.out[i].thumbnail_url = arg.x[i].thumbnail_url

\* C22: _normalize_snippet_item makes {t: s} of a bare string s and a dict
\* with a text of every item; the hint it returns is never present and
\* empty; normalizing what it returned changes nothing; and save_snippets
\* writes as many items as it was given, each of them normalized.
C22_NormalizedItems ==
    /\ res.fn = "normalize"
       => /\ res.out.kind = "dict"
          /\ res.out.t # NoneStr
          /\ res.out.hint # <<>>
          /\ arg.x.kind = "str" => res.out = DictItem(arg.x.t, NoneStr)
          /\ (arg.x.kind = "dict" /\ arg.x.t # NoneStr) => res.out.t = arg.x.t
          /\ (arg.x.kind = "dict" /\ arg.x.hint \notin {NoneStr, <<>>})
                => res.out.hint = arg.x.hint
          /\ _normalize_snippet_item(res.out) = res.out
    /\ res.fn = "save"
       => /\ Len(res.out) = Len(arg.x)
          /\ \A i \in 1..Len(res.out) :
                /\ res.out[i].kind = "dict"
                /\ res.out[i].hint # <<>>
                /\ _normalize_snippet_item(res.out[i]) = res.out[i]

\* C22 witness: a dict with an empty hint has been normalized, and a list
\* holding one has been saved.
C22_EmptyHintNormalized ==
    \/ res.fn = "normalize" /\ arg.x = DictItem(<<"a">>, <<>>)
    \/ /\ res.fn = "save"
       /\ Len(arg.x) = MaxItems
       /\ arg.x[1] = DictItem(<<"a">>, <<>>)
       /\ arg.x[2] = StrItem(<<"a">>)

\* C23: _sanitize_filename returns a non-empty name of allow-listed
\* characters that neither starts nor ends with a space, "." or "_"; it
\* returns "playlist" when the name holds no other allow-listed character
\* (the empty name included); and sanitizing its result changes nothing.
C23_SanitizedName ==
    res.fn = "sanitize"
    => LET r == res.out IN
       /\ r # <<>>
       /\ \A i \in 1..Len(r) : SafeChar(r[i])
       /\ r[1] \notin {" ", ".", "_"}
       /\ r[Len(r)] \notin {" ", ".", "_"}
       /\ (\A i \in 1..Len(arg.x) :
              ~SafeChar(arg.x[i]) \/ arg.x[i] \in {" ", ".", "_"})
          => r = Playlist
       /\ _sanitize_filename(r) = r

\* C23 witness: names with nothing to keep (the empty name, "!_.") and a
\* name kept in part (" a!") have been sanitized.
C23_FallbackAndTrimmed ==
    /\ res.fn = "sanitize"
    /\ \/ arg.x = <<>> /\ res.out = Playlist
       \/ arg.x = <<"!", "_", ".">> /\ res.out = Playlist
       \/ arg.x = <<" ", "a", "!">> /\ res.out = <<"a">>

\* C24: _playlist_total_secs is the sum of the durations, a missing one
\* counting 0 (0 for no track, and the sum of all tracks but the last plus
\* the last one's); _sum_before_index is 0 for an index of 0 or less, the
\* total for an index of len or more, grows by the duration of the track at
\* the index from one index to the next, and never exceeds the total;
\* durations [30, 45, 0, 12] with index 2 give 87 and 75.
C24_TotalsAndElapsedBefore ==
    res.fn = "totals"
    => LET tracks == arg.x
           idx    == arg.idx
           n      == Len(tracks)
       IN
       /\ tracks = <<>> => res.out.total = 0
       /\ n > 0 => res.out.total =
                      _playlist_total_secs(SubSeq(tracks, 1, n - 1))
                      + (IF tracks[n].duration = NoneDur THEN 0
                         ELSE tracks[n].duration)
       /\ idx <= 0 => res.out.before = 0
       /\ idx >= n => res.out.before = res.out.total
       /\ (0 <= idx /\ idx < n)
          => _sum_before_index(tracks, idx + 1) =
                res.out.before + (IF tracks[idx + 1].duration = NoneDur THEN 0
                                  ELSE tracks[idx + 1].duration)
       /\ res.out.before <= res.out.total
       /\ ( /\ n = 4 /\ idx = 2
            /\ tracks[1].duration = 30 /\ tracks[2].duration = 45
            /\ tracks[3].duration = 0 /\ tracks[4].duration = 12 )
          => res.out.total = 87 /\ res.out.before = 75

\* C24 witness: the sums of durations [30, 45, 0, 12] at index 2, and of a
\* list with a missing duration, have been taken.
C24_ExampleSummed ==
    /\ res.fn = "totals"
    /\ Len(arg.x) = 4
    /\ arg.idx = 2
    /\ arg.x[1].duration = 30 /\ arg.x[2].duration = 45
    /\ arg.x[4].duration = 12
    /\ arg.x[3].duration \in {0, NoneDur}
    /\ res.out.total = 87

\* C25 (as claimed): a PUT of the upload handler that the store accepts never
\* lands on a path that holds an object, so that uploads of two sessions
\* under one name end up at two paths.
C25_UploadNeverReplaces ==
    [][\A s \in Sessions :
         (pc[s] = "up_put" /\ pc'[s] = "idle" /\ Accepted)
         => /\ ~files[tloc[s].candidate].exists
            /\ last'.status = 201
      ]_vars

\* C26: when the store fails the read, or rejects or fails the write, of a
\* snippet register, delete or reorder, the handler shows an error and no
\* success message, the session keeps its list and its token, and the
\* stored object is what it was.
C26_FailedSnippetActionChangesNothing ==
    [][\A s \in Sessions :
         ( /\ last = NoLast
           /\ last'.s = s
           /\ last'.op \in {"reg", "del", "reo"}
           /\ (last'.read = 500 \/ last'.status \in {409, 500}) )
         => /\ last'.msg = "error"
            /\ ss'[s].snippets = ss[s].snippets
            /\ ss'[s]._snip_sha = ss[s]._snip_sha
            /\ snipFile' = snipFile
            /\ nextSha' = nextSha
      ]_vars

\* C26 witness: a session that holds a list has just had its write rejected
\* because the object had changed since the handler's read.
C26_RejectedWriteShown ==
    /\ last.op \in {"del", "reo"}
    /\ last.status = 409
    /\ last.msg = "error"
    /\ ss[last.s].snippets # <<>>
    /\ ss[last.s]._snip_sha # snipFile.sha

\* the track current_index designates in the tab 4 state st, when there is
\* one
HasCurrent(st) == st.current_index \in 0..(Len(st.playlist) - 1)
Current(st) == st.playlist[st.current_index + 1]

Distinct(list) ==
    \A i, j \in 1..Len(list) : list[i] = list[j] => i = j

\* C28: whatever sequence of play/pause, select, move, delete, clear and
\* load a session goes through, is_playing is true exactly when
\* play_start_ts is set, and elapsed_acc is never negative.
C28_PlayerStateConsistent ==
    \A s \in Sessions :
        /\ pls[s].is_playing <=> pls[s].play_start_ts # NoneTs
        /\ pls[s].elapsed_acc >= 0

\* C28 witness: a player that played, was paused with time elapsed, and
\* plays again.
C28_ResumedWithElapsed ==
    /\ pls["s1"].is_playing
    /\ pls["s1"].play_start_ts = MaxTime
    /\ pls["s1"].elapsed_acc > 0
    /\ pls["s1"].playlist # <<>>

\* C29 (as claimed): a move, or a delete of a track other than the current
\* one, leaves current_index on the track it designated.  (Among the
\* handlers that leave no message, these are the ones that change a
\* playlist without lengthening or emptying it; with no track twice in the
\* playlist, the current track was not the deleted one when it is still
\* there.)
C29_CurrentTrackKept ==
    [][\A s \in Sessions :
         LET st == pls[s]
             nx == pls'[s]
         IN
         ( /\ last' = last
           /\ nx.playlist # st.playlist
           /\ nx.playlist # <<>>
           /\ Len(nx.playlist) <= Len(st.playlist)
           /\ Distinct(st.playlist)
           /\ HasCurrent(st)
           /\ \E k \in 1..Len(nx.playlist) : nx.playlist[k] = Current(st) )
         => /\ HasCurrent(nx)
            /\ Current(nx) = Current(st)
      ]_vars

\* C30 (as claimed): a step after which current_index designates another
\* track than before leaves elapsed_acc at 0.
C30_ElapsedResetOnTrackChange ==
    [][\A s \in Sessions :
         ( /\ HasCurrent(pls[s])
           /\ HasCurrent(pls'[s])
           /\ Current(pls'[s]) # Current(pls[s]) )
         => pls'[s].elapsed_acc = 0
      ]_vars

\* C27: a del, snip_del or snip_reorder handler runs only on a parameter the
\* URL carries; when its run ends, after a toast as after an error, the URL
\* carries the parameter no more; and the URL gets a parameter only when the
\* page is opened with one.  So no parameter starts its handler twice.
C27_ParameterProcessedOnce ==
    [][\A s \in Sessions :
         /\ ( /\ last = NoLast
              /\ pc[s] = "idle"
              /\ \/ pc'[s] \in {"delf_put", "del_put", "reo_put"}
                 \/ last'.s = s /\ last'.op \in {"delf", "del", "reo"} )
            => LET op == IF pc'[s] = "idle" THEN last'.op
                         ELSE IF pc'[s] = "delf_put" THEN "delf"
                         ELSE IF pc'[s] = "del_put" THEN "del" ELSE "reo"
               IN /\ HandlerOf(url[s].kind) = op
                  /\ url'[s] = url[s]
         /\ ( /\ last.s = s
              /\ last.op \in {"delf", "del", "reo"}
              /\ last' = NoLast )
            => url'[s] = NoParam
         /\ url'[s] \notin {url[s], NoParam}
            => /\ url[s] = NoParam
               /\ pc[s] = "idle"
               /\ last = NoLast
               /\ last' = NoLast
               /\ pc'[s] = "idle"
      ]_vars

\* C27 witness: a session is shown the error of its snip_del handler, whose
\* write failed, while the URL still carries the parameter, and the other
\* session is through with a parameter of its own.
C27_FailedAttemptStillInUrl ==
    /\ last.op = "del"
    /\ last.msg = "error"
    /\ last.status \in {409, 500}
    /\ url[last.s].kind = "snip_del"
    /\ \E s \in Sessions :
          s # last.s /\ url[s] = NoParam /\ ss[s].snippets # ss[last.s].snippets

====
